---- MODULE Spec2Model ----
(***************************************************************************)
(* A model of createpdfs.py: the badge generator reads attendee rows from  *)
(* a CSV file, filters them, draws one badge per row on a 6-slot US Letter *)
(* sheet, starts a new sheet after every sixth badge and saves the PDF.    *)
(*                                                                         *)
(* The rows of the CSV are consumed one at a time (the row mask of lines   *)
(* 97-98 is applied to each row as it is read; index counts the rows of    *)
(* df_filtered, as its index does after reset_index).  Texts are strings; a cell pandas    *)
(* reads as missing is the value NaN.  An uncaught Python exception ends   *)
(* the run: pc = "crashed" and error names the exception.                  *)
(***************************************************************************)
EXTENDS Integers, Sequences, FiniteSets, TLC

VARIABLES
    pc,            \* "start", "loop", "saved", "crashed"
    error,         \* the uncaught exception, "none" while there is none
    config,        \* the keys of config.yaml that are present
    index,         \* rows of df_filtered the loop has iterated over
    row,           \* the row last read from df
    outcome,       \* what became of that row
    badge_count,   \* line 121
    company,       \* line 165: the role/affiliation line of the current row
    ops,           \* drawing operations issued for the current row
    canvas,        \* c: the emitted pages, the open page, and whether page code is pending
    saved_pages,   \* the pages of the written file, <<>> until c.save()
    diagnostics,   \* printed 'Error with row ...' lines (their row indexes)
    rendered,      \* number of badges drawn completely
    fit_pc,        \* return_fontsize_that_fits: "loop" or "returned"
    fit_width,     \* its argument badge_width
    fit_text,      \* its argument text
    fit_start,     \* its argument font_size on entry
    font_size,     \* its local font_size
    text_width,    \* its local text_width, in 1/1000 point
    fit_steps      \* executions of the loop body so far

mainvars == <<pc, error, config, index, row, outcome, badge_count, company,
              ops, canvas, saved_pages, diagnostics, rendered>>
fitvars == <<fit_pc, fit_width, fit_text, fit_start, font_size, text_width, fit_steps>>
vars == <<mainvars, fitvars>>

\* ------------------------------------------------------------------ bounds
MaxRows == 14         \* rows of df_filtered in one run
MaxShrinks == 12      \* loop iterations of the text fitter that are explored
MaxBoxWidth == 24     \* largest box width tried on the text fitter alone
MaxTextLen == 2       \* longest text tried on the text fitter alone

\* ------------------------------------------------------------------ texts
\* float nan, which pandas gives for an empty cell: the one cell value that is not a
\* str.  No text of the model equals it.
NaN == "<NaN>"

isna(v) == v = NaN

IsSpace(ch) == ch = " "

CharAt(s, i) == SubSeq(s, i, i)

RECURSIVE lstrip(_)
lstrip(s) ==
    IF Len(s) > 0 /\ IsSpace(CharAt(s, 1)) THEN lstrip(SubSeq(s, 2, Len(s))) ELSE s

RECURSIVE rstrip(_)
rstrip(s) ==
    IF Len(s) > 0 /\ IsSpace(CharAt(s, Len(s))) THEN rstrip(SubSeq(s, 1, Len(s) - 1)) ELSE s

\* str.strip()
strip(s) == rstrip(lstrip(s))

\* re.sub(r"\s+", " ", s): every run of whitespace becomes one space
RECURSIVE collapse_spaces(_)
collapse_spaces(s) ==
    IF Len(s) = 0 THEN s
    ELSE IF IsSpace(CharAt(s, 1))
         THEN " " \o collapse_spaces(lstrip(s))
         ELSE CharAt(s, 1) \o collapse_spaces(SubSeq(s, 2, Len(s)))

\* str.startswith
startswith(s, prefix) == Len(s) >= Len(prefix) /\ SubSeq(s, 1, Len(prefix)) = prefix

\* Helvetica glyph widths in 1/1000 em (the metrics stringWidth sums)
CharWidth(ch) ==
    CASE ch = " " -> 278  [] ch = "," -> 278  [] ch = "*" -> 389
      [] ch = "A" -> 667  [] ch = "E" -> 667  [] ch = "L" -> 556
      [] ch = "S" -> 667  [] ch = "U" -> 722  [] ch = "W" -> 944
      [] ch = "a" -> 556  [] ch = "c" -> 500  [] ch = "d" -> 556
      [] ch = "e" -> 556  [] ch = "g" -> 556  [] ch = "i" -> 222
      [] ch = "m" -> 833  [] ch = "n" -> 556  [] ch = "r" -> 333
      [] ch = "t" -> 278  [] ch = "u" -> 556

RECURSIVE GlyphSum(_)
GlyphSum(s) == IF Len(s) = 0 THEN 0 ELSE CharWidth(CharAt(s, 1)) + GlyphSum(SubSeq(s, 2, Len(s)))

\* stringWidth(text, 'Helvetica', size), in 1/1000 point: sum of widths * 0.001 * size
stringWidth(text, size) == GlyphSum(text) * size

\* ------------------------------------------------------------------ text fitter
badge_width == 288    \* 4 * 72
badge_height == 207   \* 2.875 * 72
NameStartSize == 20
RoleStartSize == 16

\* line 28: text_width > badge_width (tw in 1/1000 point)
TooWide(bw, tw) == tw > bw * 1000

\* line 29 with the decrement lost
NextFontSize_stuck(fs) == fs

\* line 29: font_size -= 3
NextFontSize(fs) == fs - 3

RECURSIVE return_fontsize_that_fits(_, _, _)
return_fontsize_that_fits(bw, text, fs) ==
    IF TooWide(bw, stringWidth(text, fs))
    THEN return_fontsize_that_fits(bw, text, NextFontSize(fs))
    ELSE fs

\* ------------------------------------------------------------------ inputs
Tickets == {"Donate to PyBeach", "Corporate", "Early Bird Corporate",
            "Student", "Early Bird Student", "General"}
Photos == {NaN, "Opt-out", "Opt-in"}
Names == {NaN, "Ann", " Ann  Lee ", "*Ann", "   ", "WWWWWWWWWWWWWWWW"}
Consents == {NaN, "Yes, please", "No"}
PronounTexts == {NaN, "-", "she"}
Titles == {NaN, "Engineer"}
Companies == {NaN, "Acme"}
Schools == {NaN, "State U"}

Row(t, p, n, c, pr, ti, co, sc) ==
    [Ticket |-> t, Photo |-> p, Name |-> n, Consent |-> c, Pronouns |-> pr,
     Title |-> ti, Company |-> co, School |-> sc]

\* The rows tried: every ticket with every photo value; every name; every ticket with
\* every combination of the optional fields its branch reads; every photo value with
\* every combination of pronoun consent and pronoun text.
Rows ==
    {Row(t, p, "Ann", "Yes, please", "she", NaN, "Acme", NaN) :
        t \in Tickets, p \in Photos}
    \cup {Row("General", p, n, "Yes, please", "she", NaN, NaN, NaN) :
        p \in {"Opt-out", "Opt-in"}, n \in Names}
    \cup {Row(t, "Opt-in", "Ann", NaN, NaN, ti, co, NaN) :
        t \in {"Corporate", "Early Bird Corporate"}, ti \in Titles, co \in Companies}
    \cup {Row(t, "Opt-in", "Ann", NaN, NaN, ti, NaN, sc) :
        t \in {"Student", "Early Bird Student"}, ti \in Titles, sc \in Schools}
    \cup {Row(t, "Opt-in", "Ann", NaN, NaN, ti, NaN, NaN) :
        t \in {"General", "Donate to PyBeach"}, ti \in Titles}
    \cup {Row("General", p, "Ann", c, pr, NaN, NaN, NaN) :
        p \in Photos, c \in Consents, pr \in PronounTexts}

NoRow == Row(NaN, NaN, NaN, NaN, NaN, NaN, NaN, NaN)

RequiredKeys == {"file_path", "photo_opt_out_icon", "logo_icon", "event_name"}

\* config.yaml: the keys it holds, and the value of with_guides (False when absent).
\* At most one of the keys the script subscripts is missing.
Configs ==
    {[keys |-> RequiredKeys, with_guides |-> g] : g \in BOOLEAN}
    \cup {[keys |-> RequiredKeys \ {k}, with_guides |-> FALSE] : k \in RequiredKeys}

\* ------------------------------------------------------------------ filtering
\* line 97: df['Ticket'] != 'Donate to PyBeach'
NotDonation(r) == r.Ticket # "Donate to PyBeach"

\* line 98: df['Photo opt-out'].notna()
HasPhotoValue(r) == ~isna(r.Photo)

\* line 97: the first df_filtered
df_filtered_97(df) == SelectSeq(df, NotDonation)

\* lines 98-100: df_filtered is assigned again, selected from df, not from the
\* df_filtered of line 97
df_filtered(df) == SelectSeq(df, HasPhotoValue)

\* ------------------------------------------------------------------ canvas
\* line 119: canvas.Canvas(output_path, pagesize=LETTER)
NewCanvas == [pages |-> <<>>, page |-> <<>>, pending |-> FALSE]

\* c.showPage(): the open page is emitted and a fresh one begun
showPage(cv) == [pages |-> Append(cv.pages, cv.page), page |-> <<>>, pending |-> FALSE]

\* c.setFillColor(black) after showPage: page code is pending again
setFillColor(cv) == [cv EXCEPT !.pending = TRUE]

\* c.save(): emits the open page when page code is pending, then writes the file
save(cv) == IF cv.pending THEN showPage(cv) ELSE cv

\* lines 106-113
badge_xys == << <<10, 565>>, <<316, 565>>, <<10, 338>>, <<316, 338>>, <<10, 111>>, <<316, 111>> >>

\* line 123 testing for one badge too many
StartNewSheet_late(bc) == bc = 7

\* line 123 testing for one badge too few
StartNewSheet_early(bc) == bc = 5

\* line 123
StartNewSheet(bc) == bc = 6

\* ------------------------------------------------------------------ one badge
\* a drawing operation: what is drawn, its text and size, the origin of the slot it
\* is drawn in, and for the text lines the offset below the slot's top edge
Op(name, text, size, at, dy) ==
    [op |-> name, text |-> text, size |-> size, at |-> at, dy |-> dy]

Raise(st, e) == [st EXCEPT !.err = e]
Draw(st, o) == [st EXCEPT !.ops = Append(@, o)]

\* lines 137-144: the photo opt-out icon
DrawOptOut(r, cfg, at, st) ==
    IF st.err # "none" \/ r.Photo # "Opt-out" THEN st
    ELSE IF "photo_opt_out_icon" \notin cfg.keys
         THEN Raise(st, "KeyError: 'photo_opt_out_icon'")
         ELSE Draw(st, Op("opt_out_icon", "", 50, at, 0))

\* lines 147 and 149 without the test for "-"
PrintPronouns_dash(r) ==
    /\ ~isna(r.Consent) /\ startswith(r.Consent, "Yes")
    /\ ~isna(r.Pronouns)

\* lines 147 and 149: are the pronouns printed
PrintPronouns(r) ==
    /\ ~isna(r.Consent) /\ startswith(r.Consent, "Yes")
    /\ ~isna(r.Pronouns) /\ r.Pronouns # "-"

\* lines 146-152
DrawPronouns(r, at, st) ==
    IF st.err # "none" \/ ~PrintPronouns(r) THEN st
    ELSE Draw(st, Op("pronouns", r.Pronouns, 14, at, 16))

\* lines 154-160: the logo
DrawLogo(cfg, at, st) ==
    IF st.err # "none" THEN st
    ELSE IF "logo_icon" \notin cfg.keys
         THEN Raise(st, "KeyError: 'logo_icon'")
         ELSE Draw(st, Op("logo", "", 96, at, 0))

\* lines 163-178: the role/affiliation line
RoleLine(r, st) ==
    IF st.err # "none" THEN st
    ELSE IF r.Ticket \in {"Early Bird Corporate", "Corporate"}
         THEN IF ~isna(r.Title)
              THEN IF isna(r.Company)
                   THEN Raise([st EXCEPT !.company = r.Company],
                              "TypeError: can only concatenate str (not float) to str")
                   ELSE [st EXCEPT !.company = r.Title \o ", " \o r.Company]
              ELSE [st EXCEPT !.company = r.Company]
    ELSE IF r.Ticket \in {"Early Bird Student", "Student"}
         THEN IF ~isna(r.School)
              THEN [st EXCEPT !.company = "Sudent, " \o r.School]
              ELSE [st EXCEPT !.company = "Student"]
    ELSE IF ~isna(r.Title)
         THEN [st EXCEPT !.company = r.Title]
         ELSE [st EXCEPT !.company = ""]

\* lines 180-183: name_y, as the offset below the badge's top edge
name_y(co) == IF co = "" THEN 138 ELSE 128

\* lines 185-189: the name
DrawName(name, at, st) ==
    IF st.err # "none" THEN st
    ELSE LET cleaned_name == strip(collapse_spaces(name))
         IN Draw(st, Op("name", cleaned_name,
                        return_fontsize_that_fits(badge_width, cleaned_name, NameStartSize),
                        at, name_y(st.company)))

\* lines 191-195: the role line; stringWidth raises when company is float nan
DrawRole(at, st) ==
    IF st.err # "none" \/ st.company = "" THEN st
    ELSE IF isna(st.company)
         THEN Raise(st, "stringWidth: text is not a str")
         ELSE Draw(st, Op("company", st.company,
                          return_fontsize_that_fits(badge_width, st.company, RoleStartSize),
                          at, 150))

\* lines 197-204: the ribbon
DrawRibbon(cfg, at, st) ==
    IF st.err # "none" THEN st
    ELSE IF "event_name" \notin cfg.keys
         THEN Raise(st, "KeyError: 'event_name'")
         ELSE Draw(Draw(st, Op("ribbon", "", 30, at, 0)), Op("event", "", 16, at, 0))

\* lines 206-212: the cut guides
DrawGuides(cfg, at, st) ==
    IF st.err # "none" \/ ~cfg.with_guides THEN st
    ELSE Draw(st, Op("guides", "", 0, at, 0))

\* lines 134-212: the badge of row r with printed name `name` in slot bc
DrawBadge(r, name, cfg, bc) ==
    IF bc \notin 0 .. Len(badge_xys) - 1
    THEN [err |-> "IndexError: list index out of range", ops |-> <<>>, company |-> ""]
    ELSE LET at == badge_xys[bc + 1]
             s0 == [err |-> "none", ops |-> <<>>, company |-> ""]
             s1 == DrawOptOut(r, cfg, at, s0)
             s2 == DrawPronouns(r, at, s1)
             s3 == DrawLogo(cfg, at, s2)
             s4 == RoleLine(r, s3)
             s5 == DrawName(name, at, s4)
             s6 == DrawRole(at, s5)
             s7 == DrawRibbon(cfg, at, s6)
         IN DrawGuides(cfg, at, s7)

\* lines 127-132: the name of row r: an exception, a skipped row, or the name to print
ReadName(r) ==
    IF isna(r.Name)
    THEN [kind |-> "error", err |-> "AttributeError: 'float' object has no attribute 'strip'",
          name |-> ""]
    ELSE LET name == strip(r.Name)
         IN IF isna(name) THEN [kind |-> "skip", err |-> "none", name |-> name]
            ELSE IF name = ""
                 THEN [kind |-> "error", err |-> "IndexError: string index out of range",
                       name |-> name]
            ELSE IF CharAt(name, 1) = "*" THEN [kind |-> "ok", err |-> "none", name |-> ""]
            ELSE [kind |-> "ok", err |-> "none", name |-> name]

\* ------------------------------------------------------------------ the run
FitIdle ==
    /\ fit_pc = "idle" /\ fit_width = 0 /\ fit_text = "" /\ fit_start = 0
    /\ font_size = 0 /\ text_width = 0 /\ fit_steps = 0

Init ==
    /\ pc = "start" /\ error = "none"
    /\ config \in Configs
    /\ index = 0 /\ row = NoRow /\ outcome = "none"
    /\ badge_count = 0 /\ company = "" /\ ops = <<>>
    /\ canvas = NewCanvas /\ saved_pages = <<>>
    /\ diagnostics = {} /\ rendered = 0
    /\ FitIdle

\* lines 92-121: load config.yaml, read the CSV file, open the canvas
Start ==
    /\ pc = "start"
    /\ IF "file_path" \in config.keys
       THEN /\ pc' = "loop"
            /\ canvas' = NewCanvas
            /\ badge_count' = 0
            /\ UNCHANGED error
       ELSE /\ pc' = "crashed"
            /\ error' = "KeyError: 'file_path'"
            /\ UNCHANGED <<canvas, badge_count>>
    /\ UNCHANGED <<config, index, row, outcome, company, ops, saved_pages,
                   diagnostics, rendered, fitvars>>

\* lines 97-100: a row of df that is not in df_filtered never reaches the loop
DropRow(r) ==
    /\ pc = "loop"
    /\ df_filtered(<<r>>) = <<>>
    /\ row' = r /\ outcome' = "dropped" /\ ops' = <<>> /\ company' = ""
    /\ UNCHANGED <<pc, error, config, index, badge_count, canvas, saved_pages,
                   diagnostics, rendered, fitvars>>

\* lines 122-214: one iteration of the render loop, for a row of df_filtered
Iterate(r) ==
    /\ pc = "loop" /\ index < MaxRows
    /\ df_filtered(<<r>>) = <<r>>
    /\ LET sheet == StartNewSheet(badge_count)
           cv == IF sheet THEN setFillColor(showPage(canvas)) ELSE canvas
           bc == IF sheet THEN 0 ELSE badge_count
           nm == ReadName(r)
           b == DrawBadge(r, nm.name, config, bc)
       IN /\ index' = index + 1 /\ row' = r
          /\ CASE nm.kind = "error" ->
                    /\ pc' = "crashed" /\ error' = nm.err /\ outcome' = "error"
                    /\ canvas' = cv /\ badge_count' = bc
                    /\ ops' = <<>> /\ company' = ""
                    /\ UNCHANGED <<diagnostics, rendered>>
               [] nm.kind = "skip" ->
                    /\ outcome' = "skipped" /\ diagnostics' = diagnostics \cup {index}
                    /\ canvas' = cv /\ badge_count' = bc
                    /\ ops' = <<>> /\ company' = ""
                    /\ UNCHANGED <<pc, error, rendered>>
               [] nm.kind = "ok" /\ b.err # "none" ->
                    /\ pc' = "crashed" /\ error' = b.err /\ outcome' = "error"
                    /\ canvas' = [cv EXCEPT !.pending = @ \/ b.ops # <<>>]
                    /\ badge_count' = bc
                    /\ ops' = b.ops /\ company' = b.company
                    /\ UNCHANGED <<diagnostics, rendered>>
               [] nm.kind = "ok" /\ b.err = "none" ->
                    /\ outcome' = "rendered" /\ rendered' = rendered + 1
                    /\ canvas' = [cv EXCEPT !.page = Append(@, badge_xys[bc + 1]),
                                            !.pending = TRUE]
                    /\ badge_count' = bc + 1
                    /\ ops' = b.ops /\ company' = b.company
                    /\ UNCHANGED <<pc, error, diagnostics>>
    /\ UNCHANGED <<config, saved_pages, fitvars>>

\* lines 216-217: the rows are exhausted; save the document
Save ==
    /\ pc = "loop"
    /\ pc' = "saved"
    /\ canvas' = save(canvas)
    /\ saved_pages' = save(canvas).pages
    /\ UNCHANGED <<error, config, index, row, outcome, badge_count, company, ops,
                   diagnostics, rendered, fitvars>>

Next ==
    \/ Start
    \/ \E r \in Rows : DropRow(r)
    \/ \E r \in Rows : Iterate(r)
    \/ Save

Spec == Init /\ [][Next]_vars

\* ------------------------------------------------------------------ the text fitter alone
Alphabet == {"i", "W", " "}

RECURSIVE TextsUpTo(_)
TextsUpTo(n) ==
    IF n = 0 THEN {""}
    ELSE TextsUpTo(n - 1) \cup {t \o ch : t \in TextsUpTo(n - 1), ch \in Alphabet}

MainIdle ==
    /\ pc = "idle" /\ error = "none" /\ config = [keys |-> RequiredKeys, with_guides |-> FALSE]
    /\ index = 0 /\ row = NoRow /\ outcome = "none"
    /\ badge_count = 0 /\ company = "" /\ ops = <<>>
    /\ canvas = NewCanvas /\ saved_pages = <<>>
    /\ diagnostics = {} /\ rendered = 0

\* line 27: the call, with text_width measured at the starting size
FitInit ==
    /\ MainIdle
    /\ fit_pc = "loop"
    /\ fit_width \in 1 .. MaxBoxWidth
    /\ fit_text \in TextsUpTo(MaxTextLen)
    /\ fit_start \in {NameStartSize, RoleStartSize}
    /\ font_size = fit_start
    /\ text_width = stringWidth(fit_text, fit_start)
    /\ fit_steps = 0

\* lines 28-30: one execution of the loop body
FitShrink ==
    /\ fit_pc = "loop" /\ fit_steps < MaxShrinks
    /\ TooWide(fit_width, text_width)
    /\ font_size' = NextFontSize(font_size)
    /\ text_width' = stringWidth(fit_text, font_size')
    /\ fit_steps' = fit_steps + 1
    /\ UNCHANGED <<fit_pc, fit_width, fit_text, fit_start, mainvars>>

\* line 31: the loop condition is false; return font_size
FitReturn ==
    /\ fit_pc = "loop"
    /\ ~TooWide(fit_width, text_width)
    /\ fit_pc' = "returned"
    /\ UNCHANGED <<fit_width, fit_text, fit_start, font_size, text_width, fit_steps, mainvars>>

FitNext == FitShrink \/ FitReturn

\* The interpreter runs the function to its end: a step that can be taken is taken.
FitSpec == FitInit /\ [][FitNext]_vars /\ WF_vars(FitNext)

\* ------------------------------------------------------------------ properties
Iterated == outcome \in {"rendered", "skipped", "error"}

HasOp(name) == \E i \in 1 .. Len(ops) : ops[i].op = name

\* C1: a row whose Ticket is 'Donate to PyBeach' is removed by the filtering step
\* before the render loop, whatever its other fields are: it is never iterated over
\* and nothing is drawn for it.
C1_DonationNeverRendered ==
    (outcome # "none" /\ row.Ticket = "Donate to PyBeach")
        => (outcome = "dropped" /\ ops = <<>>)

\* C2: a row of df_filtered whose name is missing is skipped: nothing is drawn, no
\* slot is consumed, a diagnostic with its row index is printed, and the run goes on
\* (it does not end in an exception).
C2_MissingNameSkipped ==
    (Iterated /\ isna(row.Name))
        => /\ outcome = "skipped"
           /\ pc \in {"loop", "saved"} /\ error = "none"
           /\ ops = <<>>
           /\ (index - 1) \in diagnostics

\* The role/affiliation line as C3 states it.
ClaimedRoleLine(r) ==
    IF r.Ticket \in {"Corporate", "Early Bird Corporate"}
    THEN IF ~isna(r.Title) THEN r.Title \o ", " \o r.Company ELSE r.Company
    ELSE IF r.Ticket \in {"Student", "Early Bird Student"}
    THEN IF ~isna(r.School) THEN "Student, " \o r.School ELSE "Student"
    ELSE IF ~isna(r.Title) THEN r.Title ELSE ""

\* C3: the role line of a rendered badge is "{job title}, {company}" or the company
\* for Corporate-family tickets, "Student, {school}" or "Student" for Student-family
\* tickets, and the job title or the empty string for every other ticket.
C3_RoleLine ==
    outcome = "rendered"
        => /\ company = ClaimedRoleLine(row)
           /\ company # "" => \E i \in 1 .. Len(ops) :
                                 ops[i].op = "company" /\ ops[i].text = ClaimedRoleLine(row)

\* C4: no page holds more than 6 badges; the slot index that picks a badge position
\* is always in 0..5 (badge_xys is never indexed out of range); the k-th rendered
\* badge, counting from 0, is drawn in slot k mod 6; and after every 6th badge a new
\* page has been begun and the slot index reset before the next badge is drawn.
C4_SixSlotsPerPage ==
    /\ \A i \in 1 .. Len(canvas.pages) : Len(canvas.pages[i]) <= 6
    /\ Len(canvas.page) <= 6
    /\ badge_count \in 0 .. 6
    /\ error # "IndexError: list index out of range"
    /\ (pc = "loop" /\ outcome = "rendered")
        => LET k == rendered - 1
           IN /\ badge_count - 1 \in 0 .. 5
              /\ badge_count - 1 = k % 6
              /\ \A i \in 1 .. Len(ops) : ops[i].at = badge_xys[(k % 6) + 1]
              /\ Len(canvas.pages) = k \div 6
              /\ \A i \in 1 .. Len(canvas.pages) : Len(canvas.pages[i]) = 6
              /\ Len(canvas.page) = (k % 6) + 1
              /\ canvas.page[Len(canvas.page)] = badge_xys[(k % 6) + 1]

\* C4's case: the seventh badge has been drawn, in slot 0 of the second page.
C4_Witness ==
    /\ pc = "loop" /\ outcome = "rendered" /\ rendered = 7
    /\ badge_count = 1 /\ Len(canvas.pages) = 1 /\ canvas.page = <<badge_xys[1]>>

\* C5: for N >= 1 rows of df_filtered the saved document holds ceil(N/6) pages, each
\* but the last with 6 badges and the last with N - 6*(ceil(N/6)-1): no trailing
\* empty page.
C5_PageCount ==
    (pc = "saved" /\ index >= 1)
        => LET N == index
               P == (N + 5) \div 6
           IN /\ rendered = N
              /\ Len(saved_pages) = P
              /\ \A i \in 1 .. P - 1 : Len(saved_pages[i]) = 6
              /\ Len(saved_pages[P]) = N - 6 * (P - 1)

\* C5's case: 13 records saved as 3 pages holding 6, 6 and 1 badges.
C5_Witness ==
    /\ pc = "saved" /\ index = 13
    /\ Len(saved_pages) = 3
    /\ Len(saved_pages[1]) = 6 /\ Len(saved_pages[2]) = 6 /\ Len(saved_pages[3]) = 1

\* C6: the size the text fitter returns is at most the starting size and a multiple
\* of 3 below it; the text fits the box at that size or the size is the floor 1; and
\* the size is never below the floor.
C6_FitsOrFloor ==
    fit_pc = "returned"
        => /\ font_size <= fit_start
           /\ (fit_start - font_size) % 3 = 0
           /\ \/ ~TooWide(fit_width, stringWidth(fit_text, font_size))
              \/ font_size = 1
           /\ font_size >= 1

\* C7: a missing optional field never causes an error: with every configuration key
\* present, a row of df_filtered whose name can be printed is rendered.
C7_OptionalFieldsNeverFail ==
    (Iterated /\ config.keys = RequiredKeys /\ ReadName(row).kind = "ok")
        => (outcome = "rendered" /\ error = "none")

\* C8: when the data file path, the logo icon path or the photo-opt-out icon path is
\* missing from the configuration, no drawing operation is ever issued.
C8_AbortBeforeRendering ==
    ~({"file_path", "logo_icon", "photo_opt_out_icon"} \subseteq config.keys)
        => (ops = <<>> /\ rendered = 0)

\* C9: pronoun text is drawn only if the consent field is present and begins with
\* 'Yes' and the pronoun text is present and is not "-"; what is drawn is the row's
\* pronoun text.
C9_PronounsOnlyWithConsent ==
    \A i \in 1 .. Len(ops) :
        ops[i].op = "pronouns"
            => /\ row.Consent # NaN /\ SubSeq(row.Consent, 1, 3) = "Yes"
               /\ row.Pronouns # NaN /\ row.Pronouns # "-"
               /\ ops[i].text = row.Pronouns

\* C9's case: a badge rendered for a row with affirmative consent and pronoun text
\* "-", without any pronoun text on it.
C9_Witness ==
    /\ outcome = "rendered"
    /\ row.Consent = "Yes, please" /\ row.Pronouns = "-"
    /\ ~HasOp("pronouns") /\ HasOp("logo")

\* C10: the text fitter returns for every input.
C10_Terminates == <>(fit_pc = "returned")

\* C10's case: the fitter has returned for a text wider than the box at every
\* positive font size.
C10_Witness ==
    /\ fit_pc = "returned"
    /\ TooWide(fit_width, stringWidth(fit_text, 1))
    /\ font_size <= 0 /\ fit_steps > 0

====
